---- MODULE Spec2Model ----
(***************************************************************************)
(* Model of the drug-claims retrieval pipeline: the PubMed/PMC dependent   *)
(* fetch chain, the search orchestrator, the search validator, the         *)
(* excluded-articles report and the claims generator with its validators.  *)
(*                                                                         *)
(* Texts are modelled as records [kind, pad, words]: kind says whether the *)
(* JSON field is a string, null or absent; words are the space-separated   *)
(* words that can carry numbers (tuples of characters); pad counts all     *)
(* other characters of the string.  Scores are kept in tenths.             *)
(***************************************************************************)
EXTENDS Integers, Sequences, FiniteSets, TLC

VARIABLES
    pc,                \* position of the request in the code being run
    claim_count,       \* user_intent.output_requirements.claim_count
    search_results,    \* SearchResults handed to the generator
    ranked_articles,   \* list of (article, score), ranker order
    excluded_articles, \* list of dicts from get_excluded_articles
    llm_label,         \* what extract_fda_label_claim answers for the label
    llm_article,       \* what extract_claim_from_full_text answers, per pmcid
    claims,            \* local list `claims` of generate_claims
    claim_id,          \* local counter `claim_id` of generate_claims
    pos,               \* index of the next entry of articles_to_process
    attempted,         \* pmcids for which _generate_article_claim was called
    label_attempts,    \* number of calls of _generate_fda_claim
    output,            \* what the request returned (or that it raised)
    drug_name,         \* whether the intent names the drug (brand or generic)
    gather_results,    \* the three results of asyncio.gather in search_all_sources
    chain_pc,          \* stage of search_and_get_full_text
    pmids,             \* stage 1: identifiers returned by search_articles
    all_articles,      \* stage 2: summaries returned by get_article_metadata
    fetches,           \* stage 3: outcome of get_full_text_article per PMC id
    chain_result,      \* what search_and_get_full_text returned
    calls,             \* outbound calls issued by the chain, in order
    validator_args,    \* arguments of a direct call of a ClaimValidator method
    validator_result,  \* what that call returned
    judgments,         \* what the scoring task of the k-th article will end with
    task_results,      \* rank_articles: result slot of each scoring task
    completion_order,  \* rank_articles: the tasks in the order they completed
    label_names,       \* OpenFDAClient.search: its brand_name and generic_name
    lookups,           \* OpenFDAClient.search: the lookup attempts made, in order
    label_result       \* OpenFDAClient.search: what it returned, or that it raised

genVars == <<pc, claim_count, search_results, ranked_articles, excluded_articles,
             llm_label, llm_article, claims, claim_id, pos, attempted,
             label_attempts, output>>
searchVars == <<drug_name, gather_results>>
chainVars == <<chain_pc, pmids, all_articles, fetches, chain_result, calls>>

validatorVars == <<validator_args, validator_result>>

scoringVars == <<judgments, task_results, completion_order>>

labelVars == <<label_names, lookups, label_result>>

vars == <<genVars, searchVars, chainVars, validatorVars, scoringVars, labelVars>>

----------------------------------------------------------------------------
(* Bounds of the model *)

MaxQuota == 2
MaxArticles == 3
MaxAbstractOnly == 1
MaxSummaries == 2
MaxPmids == 3

(* Program constants *)

MinClaimTextLen == 20
MinSubstantiationLen == 100
HighScoreThreshold == 200
ExcludedCap == 10
FewFullText == 3

----------------------------------------------------------------------------
(* Texts and number tokens *)

Digits == {"0", "1", "2", "3", "4", "5", "6", "7", "8", "9"}

Str(p, w) == [kind |-> "str", pad |-> p, words |-> w]
NullField == [kind |-> "null", pad |-> 0, words |-> <<>>]
MissingField == [kind |-> "missing", pad |-> 0, words |-> <<>>]

RECURSIVE SumLen(_)
SumLen(ws) == IF ws = <<>> THEN 0 ELSE Len(Head(ws)) + SumLen(Tail(ws))

\* len(text) of a string field
TextLen(t) == t.pad + SumLen(t.words)

\* text1 + " " + text2
Concat(t1, t2) == Str(t1.pad + 1 + t2.pad, t1.words \o t2.words)

----------------------------------------------------------------------------
(* ClaimValidator: numeric fidelity *)

RECURSIVE AllDigits(_)
AllDigits(w) == IF w = <<>> THEN TRUE
                ELSE Head(w) \in Digits /\ AllDigits(Tail(w))

\* the word without one trailing "%"
StripPercent(w) ==
    IF w # <<>> /\ w[Len(w)] = "%" THEN SubSeq(w, 1, Len(w) - 1) ELSE w

\* \d{1,3}(?:,\d{3})* : one to three digits, then groups of a comma and
\* three digits
RECURSIVE Grouped(_)
Grouped(d) ==
    IF Len(d) <= 3 THEN d # <<>> /\ AllDigits(d)
    ELSE /\ d[Len(d) - 3] = ","
         /\ AllDigits(SubSeq(d, Len(d) - 2, Len(d)))
         /\ Grouped(SubSeq(d, 1, Len(d) - 4))

\* What the first pattern of _extract_numbers finds in one space-delimited
\* word made of digits only, or of well-formed comma groups, with or without
\* a final "%": the grouped number; a "%" that ends the word is not part of
\* the match, because no word boundary follows it, and a run of four or more
\* digits gives no match at all.
WordNumbers(w) ==
    LET d == StripPercent(w)
    IN  IF Grouped(d) THEN <<d>> ELSE <<>>

RECURSIVE ExtractWords(_)
ExtractWords(ws) ==
    IF ws = <<>> THEN <<>>
    ELSE WordNumbers(Head(ws)) \o ExtractWords(Tail(ws))

\* _extract_numbers(text)
ExtractNumbers(t) == ExtractWords(t.words)

Lower(c) == IF c = "N" THEN "n" ELSE IF c = "C" THEN "c"
            ELSE IF c = "T" THEN "t" ELSE IF c = "P" THEN "p" ELSE c

\* number.replace(" ", "").replace(",", "").lower()
RECURSIVE Clean(_)
Clean(w) ==
    IF w = <<>> THEN <<>>
    ELSE IF Head(w) \in {" ", ","} THEN Clean(Tail(w))
    ELSE <<Lower(Head(w))>> \o Clean(Tail(w))

\* python's `a in b` on strings
Contains(a, b) ==
    \E i \in 0..(Len(b) - Len(a)) : SubSeq(b, i + 1, i + Len(a)) = a

\* (variant: only equality after cleaning counts as a match)
FuzzyNumberMatchExact(number, number_list) ==
    \E i \in 1..Len(number_list) : Clean(number) = Clean(number_list[i])

\* _fuzzy_number_match(number, number_list)
FuzzyNumberMatch(number, number_list) ==
    \E i \in 1..Len(number_list) :
        LET n == Clean(number)
            s == Clean(number_list[i])
        IN  n = s \/ Contains(n, s) \/ Contains(s, n)

SeqRange(s) == {s[i] : i \in 1..Len(s)}

RECURSIVE NumberIssues(_, _)
NumberIssues(claim_numbers, source_numbers) ==
    IF claim_numbers = <<>> THEN <<>>
    ELSE LET number == Head(claim_numbers)
             rest == NumberIssues(Tail(claim_numbers), source_numbers)
         IN  IF number \notin SeqRange(source_numbers)
                /\ ~FuzzyNumberMatch(number, source_numbers)
             THEN <<[issue |-> "number", token |-> number]>> \o rest
             ELSE rest

\* numerical_data is the list of the map's values; <<>> stands for None
RECURSIVE FieldIssues(_, _)
FieldIssues(values, source_numbers) ==
    IF values = <<>> THEN <<>>
    ELSE LET value == Head(values)
             rest == FieldIssues(Tail(values), source_numbers)
         IN  IF value # <<>> /\ ~FuzzyNumberMatch(value, source_numbers)
             THEN <<[issue |-> "field", token |-> value]>> \o rest
             ELSE rest

\* validate_numerical_accuracy(claim_text, substantiation, source_text,
\* numerical_data) -> (is_valid, issues)
validate_numerical_accuracy(claim_text, substantiation, source_text, numerical_data) ==
    LET claim_numbers == ExtractNumbers(Concat(claim_text, substantiation))
        source_numbers == ExtractNumbers(source_text)
        issues == NumberIssues(claim_numbers, source_numbers)
                  \o FieldIssues(numerical_data, source_numbers)
    IN  [is_valid |-> Len(issues) = 0, issues |-> issues]

----------------------------------------------------------------------------
(* ClaimValidator: completeness *)

\* `not claim_data.get(field)`
Falsy(t) == t.kind # "str" \/ TextLen(t) = 0

\* (variant: a text of exactly the minimum length is too short)
too_short_at_minimum(text, minimum) == TextLen(text) <= minimum

\* `len(claim_text) < 20`, `len(substantiation) < 100`
too_short(text, minimum) == TextLen(text) < minimum

\* validate_claim_completeness(claim_data) -> (is_valid, issues); len() of a
\* null field raises TypeError
validate_claim_completeness(claim_data) ==
    LET ct == claim_data.claim_text
        sub == claim_data.substantiation
        missing == (IF Falsy(ct) THEN <<"missing claim_text">> ELSE <<>>)
                   \o (IF Falsy(sub) THEN <<"missing substantiation">> ELSE <<>>)
        short == (IF too_short(ct, MinClaimTextLen)
                  THEN <<"claim text too short">> ELSE <<>>)
                 \o (IF too_short(sub, MinSubstantiationLen)
                     THEN <<"substantiation too short">> ELSE <<>>)
        issues == missing \o short
    IN  IF ct.kind = "null" \/ sub.kind = "null"
        THEN [raised |-> TRUE, is_valid |-> FALSE, issues |-> <<>>]
        ELSE [raised |-> FALSE, is_valid |-> Len(issues) = 0, issues |-> issues]

----------------------------------------------------------------------------
(* Records of the data model *)

NoLabel == "none"

NCT1 == <<"N", "C", "T", "1">>
NCT2 == <<"N", "C", "T", "2">>

\* ClinicalTrialResult
Trial(nct) == [nct_id |-> nct]

\* The Results section every modelled article has: "... 89% ..."
ResultsSection == Str(300, << <<"8", "9", "%">> >>)

\* PubMedFullTextArticle number i: article i names the registry ids of
\* MentionsOf(i) in its full text (article 2 writes them in lower case, and
\* both name the second id before the first)
MentionsOf(i) == IF i = 1 THEN <<>>
                 ELSE IF i = 2 THEN << <<"n", "c", "t", "2">>, <<"n", "c", "t", "1">> >>
                 ELSE <<NCT2, NCT1>>

Article(i) == [pmcid |-> i,
               has_results |-> TRUE,
               results |-> ResultsSection,
               full_text |-> Str(900, ResultsSection.words \o MentionsOf(i))]

\* PubMedArticleMetadata; pmcid 0 and journal FALSE stand for None
Metadata(pmid, pmcid, journal) == [pmid |-> pmid, pmcid |-> pmcid, journal |-> journal]

\* Citation
Citation(primary, type, pmcid, nct) ==
    [primary |-> primary, citation_type |-> type, pmcid |-> pmcid, nct |-> nct]

\* claim_data documents the generation service can answer with
ClaimData(ct, sub, nd) ==
    [none |-> FALSE, claim_text |-> ct, substantiation |-> sub, numerical_data |-> nd]
NoData == [none |-> TRUE, claim_text |-> MissingField,
           substantiation |-> MissingField, numerical_data |-> <<>>]

GoodText == Str(25, << <<"8", "9", "%">> >>)
WrongNumberText == Str(25, << <<"9", "2", "%">> >>)
ShortText == Str(10, <<>>)
GoodSubstantiation == Str(150, <<>>)
ShortSubstantiation == Str(50, <<>>)

ArticleAnswers ==
    { NoData,
      ClaimData(GoodText, GoodSubstantiation, <<>>),
      ClaimData(ShortText, GoodSubstantiation, <<>>),
      ClaimData(WrongNumberText, GoodSubstantiation, <<>>),
      ClaimData(GoodText, GoodSubstantiation, << <<>>, <<"9", "2", "%">> >>) }

LabelAnswers ==
    { NoData,
      ClaimData(GoodText, GoodSubstantiation, <<>>),
      ClaimData(ShortText, ShortSubstantiation, <<>>),
      ClaimData(GoodText, MissingField, <<>>),
      ClaimData(NullField, GoodSubstantiation, <<>>) }

----------------------------------------------------------------------------
(* ResultsRanker.get_excluded_articles *)

\* (variant: reports every summary, with or without a PMC id)
RECURSIVE get_excluded_articles_all(_)
get_excluded_articles_all(pubmed_articles) ==
    IF pubmed_articles = <<>> THEN <<>>
    ELSE <<[pmid |-> Head(pubmed_articles).pmid, journal |-> Head(pubmed_articles).journal]>>
         \o get_excluded_articles_all(Tail(pubmed_articles))

RECURSIVE get_excluded_articles(_)
get_excluded_articles(pubmed_articles) ==
    IF pubmed_articles = <<>> THEN <<>>
    ELSE LET article == Head(pubmed_articles)
             rest == get_excluded_articles(Tail(pubmed_articles))
         IN  IF article.pmcid = 0
             THEN <<[pmid |-> article.pmid, journal |-> article.journal]>> \o rest
             ELSE rest

----------------------------------------------------------------------------
(* ClaimsGenerator *)

\* article.sections.get("Results", article.full_text[:2000]); the modelled
\* full texts are shorter than the window
SourceExcerpt(article) ==
    IF article.has_results THEN article.results ELSE article.full_text

\* (variant: the trial citation is flagged primary as well)
trial_citation_primary(nct_id) == Citation(TRUE, "TRIAL_REGISTRY", 0, nct_id)

\* Citation(primary=False, citation_type=TRIAL_REGISTRY, nct=trial.nct_id)
trial_citation(nct_id) == Citation(FALSE, "TRIAL_REGISTRY", 0, nct_id)

\* (variant: the trials are tried from the last to the first)
trials_searched_backwards(clinical_trials) ==
    [i \in 1..Len(clinical_trials) |-> clinical_trials[Len(clinical_trials) + 1 - i]]

\* `for trial in clinical_trials:`
trials_searched(clinical_trials) == clinical_trials

\* _find_trial_citation(article, clinical_trials): first trial whose lowered
\* id occurs in the lowered full text
RECURSIVE find_trial_citation(_, _)
find_trial_citation(article, clinical_trials) ==
    IF clinical_trials = <<>> THEN <<>>
    ELSE LET trial == Head(clinical_trials)
             nct_lower == Clean(trial.nct_id)
         IN  IF \E k \in 1..Len(article.full_text.words) :
                    Contains(nct_lower, Clean(article.full_text.words[k]))
             THEN <<trial_citation(trial.nct_id)>>
             ELSE find_trial_citation(article, Tail(clinical_trials))

NoClaim == [ok |-> FALSE]

\* no direct call of a validator is under way
NoArgs == [op |-> "none", claim_text |-> MissingField, substantiation |-> MissingField,
           source_text |-> MissingField, numerical_data |-> <<>>,
           full_text_available |-> FALSE, source_type |-> ""]
NoResult == [done |-> FALSE, raised |-> FALSE, is_valid |-> FALSE, issues |-> <<>>,
             warning |-> "None"]

ValidatorIdle ==
    /\ validator_args = NoArgs
    /\ validator_result = NoResult

\* no label lookup is under way
LabelIdle ==
    /\ label_names = [brand_name |-> "None", generic_name |-> "None"]
    /\ lookups = <<>>
    /\ label_result = "pending"

\* no scoring task of rank_articles is under way
ScoringIdle ==
    /\ judgments = <<>>
    /\ task_results = <<>>
    /\ completion_order = <<>>

\* (variant: an incomplete label candidate is discarded)
fda_candidate_rejected_strict(check) == check.raised \/ ~check.is_valid

\* _generate_fda_claim, "Validate completeness": an invalid check is only
\* logged ("Continue anyway"); only an exception ends the attempt
fda_candidate_rejected(check) == check.raised

\* _generate_fda_claim(claim_id, fda_label, claim_type) -> Claim or None
generate_fda_claim(id, claim_data) ==
    IF claim_data.none THEN NoClaim
    ELSE LET check == validate_claim_completeness(claim_data)
         IN  IF fda_candidate_rejected(check) THEN NoClaim
             \* claim_data["claim_text"] of a missing key raises KeyError
             ELSE IF claim_data.claim_text.kind = "missing"
                     \/ claim_data.substantiation.kind = "missing" THEN NoClaim
             ELSE [ok |-> TRUE,
                   claim |-> [claim_id |-> id,
                              source_type |-> "FDA_APPROVED_LABEL",
                              claim_text |-> claim_data.claim_text,
                              substantiation |-> claim_data.substantiation,
                              citations |-> <<Citation(TRUE, "FDA_LABEL", 0, <<>>)>>,
                              confidence |-> "Highest - FDA Approved",
                              numerical_data |-> <<>>]]

\* (variant: an incomplete article candidate is only logged)
article_candidate_rejected_lenient(check) == check.raised

\* _generate_article_claim, "Validate completeness": invalid returns None
article_candidate_rejected(check) == check.raised \/ ~check.is_valid

\* (variant: the tier looks at the score only)
article_confidence_by_score(num_valid, relevance_score) ==
    IF relevance_score >= HighScoreThreshold
    THEN "High - Full text substantiation with validated data"
    ELSE "High - Full text substantiation"

\* (variant: the top tier needs a score above the threshold)
article_confidence_above(num_valid, relevance_score) ==
    IF num_valid /\ relevance_score > HighScoreThreshold
    THEN "High - Full text substantiation with validated data"
    ELSE IF num_valid
    THEN "High - Full text substantiation"
    ELSE "Medium - Full text available but numerical validation flagged issues"

\* _generate_article_claim, "Determine confidence based on validation"
article_confidence(num_valid, relevance_score) ==
    IF num_valid /\ relevance_score >= HighScoreThreshold
    THEN "High - Full text substantiation with validated data"
    ELSE IF num_valid
    THEN "High - Full text substantiation"
    ELSE "Medium - Full text available but numerical validation flagged issues"

\* _generate_article_claim(claim_id, article, clinical_trials, claim_type,
\* relevance_score) -> Claim or None
generate_article_claim(id, article, clinical_trials, relevance_score, claim_data) ==
    IF claim_data.none THEN NoClaim
    ELSE LET check == validate_claim_completeness(claim_data)
         IN  IF article_candidate_rejected(check) THEN NoClaim
             ELSE LET num == validate_numerical_accuracy(
                                 claim_data.claim_text, claim_data.substantiation,
                                 SourceExcerpt(article), claim_data.numerical_data)
                      \* a failed numeric check is only logged
                      confidence == article_confidence(num.is_valid, relevance_score)
                  IN  [ok |-> TRUE,
                       claim |-> [claim_id |-> id,
                                  source_type |-> "PEER_REVIEWED_FULL_TEXT",
                                  claim_text |-> claim_data.claim_text,
                                  substantiation |-> claim_data.substantiation,
                                  citations |->
                                      <<Citation(TRUE, "JOURNAL_ARTICLE", article.pmcid, <<>>)>>
                                      \o find_trial_citation(
                                             article, trials_searched(clinical_trials)),
                                  confidence |-> confidence,
                                  numerical_data |-> claim_data.numerical_data]]

Take(s, n) == SubSeq(s, 1, IF n < Len(s) THEN n ELSE Len(s))

\* (variant: the whole ranked list is walked)
articles_to_process_all == ranked_articles

\* articles_to_process = ranked_articles[:target_claim_count]
articles_to_process == Take(ranked_articles, claim_count)

\* (variant: the loop never breaks)
quota_reached_never == FALSE

\* `if len(claims) >= target_claim_count: break`
quota_reached == Len(claims) >= claim_count

\* (variant: the id advances after every attempt)
next_claim_id_always(id, result) == id + 1

\* `if claim: claims.append(claim); claim_id += 1`
next_claim_id(id, result) == IF result.ok THEN id + 1 ELSE id

\* (variant: a new claim is put in front of the list)
with_claim_in_front(list, claim) == <<claim>> \o list

\* claims.append(claim)
with_claim(list, claim) == Append(list, claim)

\* step 1 of generate_claims: the label claim
GenerateFdaClaim ==
    /\ UNCHANGED <<validatorVars, scoringVars, labelVars>>
    /\ pc = "gen_label"
    /\ IF search_results.fda_label # NoLabel
       THEN LET fda_claim == generate_fda_claim(claim_id, llm_label)
            IN  /\ label_attempts' = label_attempts + 1
                /\ claims' = IF fda_claim.ok THEN with_claim(claims, fda_claim.claim)
                              ELSE claims
                /\ claim_id' = next_claim_id(claim_id, fda_claim)
       ELSE UNCHANGED <<claims, claim_id, label_attempts>>
    /\ pos' = 1
    /\ pc' = "gen_articles"
    /\ UNCHANGED <<claim_count, search_results, ranked_articles, excluded_articles,
                   llm_label, llm_article, attempted, output>>
    /\ UNCHANGED <<searchVars, chainVars>>

\* one iteration of the loop over articles_to_process
GenerateArticleClaim ==
    /\ UNCHANGED <<validatorVars, scoringVars, labelVars>>
    /\ pc = "gen_articles"
    /\ pos <= Len(articles_to_process)
    /\ ~quota_reached
    /\ LET entry == articles_to_process[pos]
           article_claim == generate_article_claim(
                                claim_id, entry.article, search_results.clinical_trials,
                                entry.score, llm_article[entry.article.pmcid])
       IN  /\ attempted' = attempted \cup {entry.article.pmcid}
           /\ claims' = IF article_claim.ok THEN with_claim(claims, article_claim.claim)
                         ELSE claims
           /\ claim_id' = next_claim_id(claim_id, article_claim)
    /\ pos' = pos + 1
    /\ UNCHANGED <<pc, claim_count, search_results, ranked_articles, excluded_articles,
                   llm_label, llm_article, label_attempts, output>>
    /\ UNCHANGED <<searchVars, chainVars>>

NoOutput == [status |-> "none", error |-> "", claims |-> <<>>,
             articles_without_full_text |-> <<>>, results_found |-> <<>>]

Raised(error) == [NoOutput EXCEPT !.status = "raised", !.error = error]

\* (variant: the whole list is reported)
shown_excluded_all(excluded) == excluded

\* excluded_articles[:10]
shown_excluded(excluded) == Take(excluded, ExcludedCap)

\* the loop ends (list exhausted or `break`), then the summary and the
\* additional context are built and the ClaimsOutput is returned;
\* ArticleWithoutFullText(journal=None) fails validation
BuildOutput ==
    /\ UNCHANGED <<validatorVars, scoringVars, labelVars>>
    /\ pc = "gen_articles"
    /\ pos > Len(articles_to_process) \/ quota_reached
    /\ LET shown == shown_excluded(excluded_articles)
       IN  IF \E k \in 1..Len(shown) : ~shown[k].journal
           THEN output' = Raised("ValidationError")
           ELSE output' = [status |-> "returned",
                           error |-> "",
                           claims |-> claims,
                           articles_without_full_text |-> shown,
                           results_found |->
                               <<IF search_results.fda_label # NoLabel THEN 1 ELSE 0,
                                 search_results.pubmed_total_found,
                                 search_results.pubmed_full_text_available,
                                 search_results.pubmed_abstract_only,
                                 search_results.clinical_trials_found>>]
    /\ pc' = "done"
    /\ UNCHANGED <<claim_count, search_results, ranked_articles, excluded_articles,
                   llm_label, llm_article, claims, claim_id, pos, attempted,
                   label_attempts>>
    /\ UNCHANGED <<searchVars, chainVars>>

----------------------------------------------------------------------------
(* PubMedClient.search_and_get_full_text: the dependent fetch chain *)

NoChainResult == [status |-> "none", all_articles |-> <<>>, full_text |-> <<>>]
ChainReturn(summaries, full_text) ==
    [status |-> "returned", all_articles |-> summaries, full_text |-> full_text]

\* @retry(stop=stop_after_attempt(3), ..., reraise=True)
StopAfterAttempt == 3

\* the operations declared with @retry (search_articles is not)
Retried == {"efetch_pubmed", "efetch_pmc"}

\* whether the exception of a failing request leaves the function body: the
\* three PubMed operations catch `Exception` and return [] or None
body_raises(op, ok) == FALSE

\* attempts the retry wrapper makes for a call whose request keeps failing
\* (ok = FALSE) or succeeds at once: the body is run again only when it raised
attempts_made(op, ok) ==
    IF op \in Retried /\ body_raises(op, ok) THEN StopAfterAttempt ELSE 1

\* one outbound call: the operation, whether it came back without error and
\* how many attempts were made
Call(op, ok) == [op |-> op, ok |-> ok, attempts |-> attempts_made(op, ok)]

ChainIdle ==
    /\ chain_pc = "idle"
    /\ pmids = <<>>
    /\ all_articles = <<>>
    /\ fetches = <<>>
    /\ chain_result = NoChainResult
    /\ calls = <<>>

\* what the parser makes of the record of one PMID: nothing (dropped), or a
\* summary with or without PMC id and journal
ParsedRecords(pmid) ==
    { <<>>,
      <<Metadata(pmid, 0, TRUE)>>,
      <<Metadata(pmid, 0, FALSE)>>,
      <<Metadata(pmid, pmid, TRUE)>> }

RECURSIVE Flatten(_)
Flatten(ss) == IF ss = <<>> THEN <<>> ELSE Head(ss) \o Flatten(Tail(ss))

\* (variant: a full-text fetch is started for every summary)
articles_with_pmc_unfiltered(summaries) == summaries

\* articles_with_pmc = [a for a in all_articles if a.pmcid]
articles_with_pmc(summaries) == SelectSeq(summaries, LAMBDA a : a.pmcid # 0)

\* search_articles: any error is caught and answered with []
search_articles_result(ok, idlist) == IF ok THEN idlist ELSE <<>>

\* get_article_metadata: any error is caught inside the retried function
\* and answered with []
get_article_metadata_result(ok, parsed) == IF ok THEN parsed ELSE <<>>

\* (variant: the chain goes on to stage 2 with an empty list)
no_pmids_never(found) == FALSE

\* `if not pmids:`
no_pmids(found) == found = <<>>

\* Step 1 and `if not pmids: return [], []`
SearchArticles ==
    /\ UNCHANGED <<validatorVars, scoringVars, labelVars>>
    /\ chain_pc = "stage1"
    /\ \E ok \in BOOLEAN, n \in 0..MaxPmids :
           LET found == search_articles_result(ok, [k \in 1..n |-> k])
           IN  /\ ~ok => n = 0
               /\ pmids' = found
               /\ calls' = Append(calls, Call("esearch", ok))
               /\ IF no_pmids(found)
                  THEN chain_pc' = "done" /\ chain_result' = ChainReturn(<<>>, <<>>)
                  ELSE chain_pc' = "stage2" /\ UNCHANGED chain_result
    /\ UNCHANGED <<all_articles, fetches, genVars, searchVars>>

\* Step 2, the filter on PMC ids and `return all_articles, []`
GetArticleMetadata ==
    /\ UNCHANGED <<validatorVars, scoringVars, labelVars>>
    /\ chain_pc = "stage2"
    /\ \E ok \in BOOLEAN :
       \E records \in [1..Len(pmids) -> UNION {ParsedRecords(k) : k \in 1..MaxPmids}] :
           LET parsed == get_article_metadata_result(ok, Flatten(records))
               with_pmc == articles_with_pmc(parsed)
           IN  /\ \A k \in 1..Len(pmids) : records[k] \in ParsedRecords(pmids[k])
               /\ ~ok => \A k \in 1..Len(pmids) : records[k] = <<>>
               /\ all_articles' = parsed
               /\ calls' = Append(calls, Call("efetch_pubmed", ok))
               /\ IF with_pmc = <<>>
                  THEN /\ chain_pc' = "done"
                       /\ chain_result' = ChainReturn(parsed, <<>>)
                       /\ UNCHANGED fetches
                  ELSE /\ chain_pc' = "stage3"
                       /\ fetches' = [k \in 1..Len(with_pmc) |-> "pending"]
                       /\ UNCHANGED chain_result
    /\ UNCHANGED <<pmids, genVars, searchVars>>

\* Step 3, one task of the gather: get_full_text_article answers with the
\* article, or with None after an error or an unparsable document
GetFullTextArticle(k) ==
    /\ UNCHANGED <<validatorVars, scoringVars, labelVars>>
    /\ chain_pc = "stage3"
    /\ fetches[k] = "pending"
    /\ \E ok \in BOOLEAN :
           /\ fetches' = [fetches EXCEPT ![k] = IF ok THEN "article" ELSE "none"]
           /\ calls' = Append(calls, Call("efetch_pmc", ok))
    /\ UNCHANGED <<chain_pc, pmids, all_articles, chain_result, genVars, searchVars>>

\* (variant: one dropped fetch empties the full-text list)
valid_full_text_all_or_nothing(with_pmc, outcomes) ==
    IF \E k \in 1..Len(with_pmc) : outcomes[k] # "article" THEN <<>>
    ELSE [j \in 1..Len(with_pmc) |-> Article(with_pmc[j].pmcid)]

\* valid_full_text, in the order of articles_with_pmc
valid_full_text(with_pmc, outcomes) ==
    LET kept == SelectSeq([k \in 1..Len(with_pmc) |-> k],
                          LAMBDA k : outcomes[k] = "article")
    IN  [j \in 1..Len(kept) |-> Article(with_pmc[kept[j]].pmcid)]

\* the gather has completed; `return all_articles, valid_full_text`
JoinFullText ==
    /\ UNCHANGED <<validatorVars, scoringVars, labelVars>>
    /\ chain_pc = "stage3"
    /\ \A k \in 1..Len(fetches) : fetches[k] # "pending"
    /\ chain_result' = ChainReturn(all_articles,
                                   valid_full_text(articles_with_pmc(all_articles), fetches))
    /\ chain_pc' = "done"
    /\ UNCHANGED <<pmids, all_articles, fetches, calls, genVars, searchVars>>

----------------------------------------------------------------------------
(* generate_claims called on an aggregated result set *)

\* (variant: counts the summaries that have no PMC id)
pubmed_abstract_only_without_pmc(pubmed_articles, pubmed_full_text) ==
    Len(get_excluded_articles(pubmed_articles))

\* pubmed_abstract_only=len(all_pubmed_articles) - len(pubmed_full_text)
pubmed_abstract_only(pubmed_articles, pubmed_full_text) ==
    Len(pubmed_articles) - Len(pubmed_full_text)

\* SearchResults as search_all_sources builds it
SearchResults(fda_label, pubmed_articles, pubmed_full_text, clinical_trials) ==
    [fda_label |-> fda_label,
     pubmed_articles |-> pubmed_articles,
     pubmed_full_text |-> pubmed_full_text,
     clinical_trials |-> clinical_trials,
     pubmed_total_found |-> Len(pubmed_articles),
     pubmed_full_text_available |-> Len(pubmed_full_text),
     pubmed_abstract_only |-> pubmed_abstract_only(pubmed_articles, pubmed_full_text),
     clinical_trials_found |-> Len(clinical_trials)]

\* authority 8.5 + relevance 10, 8.5 or 5 + recency 3.0, in tenths
HighScore == 85 + 100 + 30
ThresholdScore == 85 + 85 + 30
LowScore == 85 + 50 + 30

TrialLists == {<<>>, <<Trial(NCT1), Trial(NCT2)>>}

\* n full-text articles (pmcid = pmid = 1..n) followed by m summaries
\* without a PMC id (pmid 11..10+m)
Summaries(n, m, journal) ==
    [k \in 1..(n + m) |->
        IF k <= n THEN Metadata(k, k, TRUE) ELSE Metadata(10 + k - n, 0, journal)]

InitGen ==
    /\ ValidatorIdle
    /\ ScoringIdle
    /\ LabelIdle
    /\ pc = "gen_label"
    /\ claim_count \in 1..MaxQuota
    /\ \E n \in 0..MaxArticles, m \in 0..MaxAbstractOnly, journal \in BOOLEAN,
          fda_label \in {NoLabel, "label"}, trials \in TrialLists,
          score \in {LowScore, ThresholdScore, HighScore} :
          /\ m = 0 => journal
          /\ n = 0 => score = HighScore
          /\ search_results = SearchResults(fda_label, Summaries(n, m, journal),
                                            [k \in 1..n |-> Article(k)], trials)
          /\ ranked_articles = [k \in 1..n |->
                                   [article |-> Article(k), score |-> score]]
          /\ llm_article \in [1..n -> ArticleAnswers]
          /\ llm_label \in (IF fda_label = NoLabel THEN {NoData} ELSE LabelAnswers)
    /\ excluded_articles = get_excluded_articles(search_results.pubmed_articles)
    /\ claims = <<>>
    /\ claim_id = 1
    /\ pos = 0
    /\ attempted = {}
    /\ label_attempts = 0
    /\ output = NoOutput
    /\ drug_name = TRUE
    /\ gather_results = <<>>
    /\ ChainIdle

NextGen == GenerateFdaClaim \/ GenerateArticleClaim \/ BuildOutput

Spec == InitGen /\ [][NextGen]_vars

----------------------------------------------------------------------------
(* Properties of generate_claims *)

Returned == pc = "done" /\ output.status = "returned"

IsLabelClaim(c) == c.source_type = "FDA_APPROVED_LABEL"
IsArticleClaim(c) == c.source_type = "PEER_REVIEWED_FULL_TEXT"

\* the two validator checks, evaluated on an emitted claim
ClaimComplete(c) ==
    validate_claim_completeness(
        [claim_text |-> c.claim_text, substantiation |-> c.substantiation]).is_valid
ClaimNumbersValid(c) ==
    validate_numerical_accuracy(c.claim_text, c.substantiation,
                                SourceExcerpt(Article(c.citations[1].pmcid)),
                                c.numerical_data).is_valid

\* the same checks on what the generation service answers for ranked entry k
AnswerOf(k) == llm_article[ranked_articles[k].article.pmcid]
AnswerComplete(k) == ~AnswerOf(k).none /\ ~validate_claim_completeness(AnswerOf(k)).raised
                     /\ validate_claim_completeness(AnswerOf(k)).is_valid
AnswerNumbersValid(k) ==
    validate_numerical_accuracy(AnswerOf(k).claim_text, AnswerOf(k).substantiation,
                                SourceExcerpt(ranked_articles[k].article),
                                AnswerOf(k).numerical_data).is_valid

\* the label extraction answered with a document holding both texts
LabelExtractionSucceeds ==
    /\ search_results.fda_label # NoLabel
    /\ ~llm_label.none
    /\ llm_label.claim_text.kind = "str"
    /\ llm_label.substantiation.kind = "str"

RankedIds(n) == {ranked_articles[k].article.pmcid : k \in 1..(IF n < Len(ranked_articles) THEN n ELSE Len(ranked_articles))}

\* C1: the claim list never has more entries than the quota claim_count,
\* neither while it is built nor in the returned ClaimsOutput.
C1_QuotaRespected ==
    /\ Len(claims) <= claim_count
    /\ Returned => Len(output.claims) <= claim_count

C1_Witness ==
    /\ Returned
    /\ Len(output.claims) = claim_count
    /\ search_results.fda_label # NoLabel
    /\ Len(ranked_articles) > claim_count
    /\ \E k \in attempted : llm_article[k].none

\* C2 (as stated): every article-derived claim of the output passed
\* validate_numerical_accuracy against its source excerpt.
C2_Original ==
    Returned => \A i \in 1..Len(output.claims) :
                    IsArticleClaim(output.claims[i]) => ClaimNumbersValid(output.claims[i])

\* C2 (amended): an article-derived claim whose numeric-fidelity check failed
\* is emitted with the Medium confidence tier, and only such claims carry it;
\* every article-derived claim with a High tier passed the check.
C2_NumericFailureIsMedium ==
    Returned => \A i \in 1..Len(output.claims) :
                    IsArticleClaim(output.claims[i]) =>
                        (ClaimNumbersValid(output.claims[i])
                         <=> output.claims[i].confidence
                             # "Medium - Full text available but numerical validation flagged issues")

C2_Witness ==
    /\ Returned
    /\ \E i \in 1..Len(output.claims) :
           /\ IsArticleClaim(output.claims[i])
           /\ ~ClaimNumbersValid(output.claims[i])
    /\ \E i \in 1..Len(output.claims) :
           /\ IsArticleClaim(output.claims[i])
           /\ ClaimNumbersValid(output.claims[i])

\* C3 (as stated): whenever fewer claims than the quota are returned, every
\* article of the ranked list has been attempted.
C3_Original ==
    (Returned /\ Len(output.claims) < claim_count)
        => attempted = RankedIds(Len(ranked_articles))

\* C3 (amended): only the first claim_count entries of the ranked list are
\* ever attempted, and whenever fewer claims than the quota are returned all
\* of those first claim_count entries have been attempted.
C3_WalksTopQuota ==
    /\ attempted \subseteq RankedIds(claim_count)
    /\ (Returned /\ Len(output.claims) < claim_count)
           => attempted = RankedIds(claim_count)

C3_Witness ==
    /\ Returned
    /\ Len(output.claims) < claim_count
    /\ Len(ranked_articles) > claim_count
    /\ attempted = RankedIds(claim_count)
    /\ attempted # {}

\* C4 (as stated): no claim of the output, label-derived or article-derived,
\* fails validate_claim_completeness.
C4_Original ==
    Returned => \A i \in 1..Len(output.claims) : ClaimComplete(output.claims[i])

\* C4 (amended): every article-derived claim of the output passes
\* validate_claim_completeness; a label-derived candidate whose two texts are
\* present as strings is appended with those texts even when it fails the
\* check.
C4_ArticleClaimsComplete ==
    /\ \A i \in 1..Len(claims) : IsArticleClaim(claims[i]) => ClaimComplete(claims[i])
    /\ Returned => \A i \in 1..Len(output.claims) :
                       IsArticleClaim(output.claims[i]) => ClaimComplete(output.claims[i])
    /\ (Returned /\ LabelExtractionSucceeds
            /\ ~validate_claim_completeness(llm_label).is_valid)
           => \E i \in 1..Len(output.claims) :
                  /\ IsLabelClaim(output.claims[i])
                  /\ output.claims[i].claim_text = llm_label.claim_text
                  /\ output.claims[i].substantiation = llm_label.substantiation

C4_Witness ==
    /\ Returned
    /\ \E k \in 1..Len(ranked_articles) :
           /\ ranked_articles[k].article.pmcid \in attempted
           /\ ~AnswerOf(k).none /\ ~AnswerComplete(k)
    /\ \E i \in 1..Len(output.claims) : IsArticleClaim(output.claims[i])
    /\ \E i \in 1..Len(output.claims) :
           IsLabelClaim(output.claims[i]) /\ ~ClaimComplete(output.claims[i])

\* C5: the claim ids are 1, 2, ..., n in list order, in the list being built
\* and in the returned output, whatever candidates were discarded.
C5_SequentialIds ==
    /\ \A i \in 1..Len(claims) : claims[i].claim_id = i
    /\ Returned => \A i \in 1..Len(output.claims) : output.claims[i].claim_id = i

C5_Witness ==
    /\ Returned
    /\ Len(output.claims) = 2
    /\ IsLabelClaim(output.claims[1])
    /\ Cardinality(attempted) = 2
    /\ \E k \in attempted : llm_article[k].none

\* C6: when a label exists and its extraction succeeds, the first claim is the
\* label claim with id 1 and every other claim is article-derived.
C6_LabelFirst ==
    (LabelExtractionSucceeds /\ pc # "gen_label") =>
        /\ Len(claims) >= 1
        /\ IsLabelClaim(claims[1])
        /\ claims[1].claim_id = 1
        /\ \A i \in 2..Len(claims) : IsArticleClaim(claims[i])
        /\ Returned => /\ Len(output.claims) >= 1
                       /\ IsLabelClaim(output.claims[1])
                       /\ output.claims[1].claim_id = 1
                       /\ \A i \in 2..Len(output.claims) : IsArticleClaim(output.claims[i])

C6_Witness ==
    /\ Returned
    /\ LabelExtractionSucceeds
    /\ Len(output.claims) >= 2
    /\ IsLabelClaim(output.claims[1])
    /\ IsArticleClaim(output.claims[2])

\* C7: quota 2, a label whose extraction succeeds, three ranked articles, the
\* first two passing both validator checks and the third failing numeric
\* fidelity: the output is the label claim followed by the first article's
\* claim, and the third article is in neither the claims nor the excluded list.
C7_Scenario ==
    /\ claim_count = 2
    /\ LabelExtractionSucceeds
    /\ Len(ranked_articles) = 3
    /\ AnswerComplete(1) /\ AnswerNumbersValid(1)
    /\ AnswerComplete(2) /\ AnswerNumbersValid(2)
    /\ AnswerComplete(3) /\ ~AnswerNumbersValid(3)

C7_EndToEnd ==
    (Returned /\ C7_Scenario) =>
        LET third == ranked_articles[3].article.pmcid
        IN  /\ Len(output.claims) = 2
            /\ IsLabelClaim(output.claims[1])
            /\ IsArticleClaim(output.claims[2])
            /\ output.claims[2].citations[1].pmcid = ranked_articles[1].article.pmcid
            /\ \A i \in 1..2 : \A j \in 1..Len(output.claims[i].citations) :
                   output.claims[i].citations[j].pmcid # third
            /\ \A e \in 1..Len(output.articles_without_full_text) :
                   \A a \in 1..Len(search_results.pubmed_articles) :
                       search_results.pubmed_articles[a].pmcid = third =>
                           output.articles_without_full_text[e].pmid
                               # search_results.pubmed_articles[a].pmid

C7_Witness ==
    /\ Returned
    /\ C7_Scenario
    /\ Len(output.articles_without_full_text) >= 1
    /\ Len(output.claims) = 2

----------------------------------------------------------------------------
(* SearchOrchestrator.search_all_sources *)

\* one entry of the list asyncio.gather(..., return_exceptions=True) returns:
\* the value of the sub-search, or the exception it raised
Value(v) == [raised |-> FALSE, value |-> v]
\* (the value field of an exception entry is never read)
Exception(unused) == [raised |-> TRUE, value |-> unused]

\* what the fetch chain can return for up to n summaries: summary k has a PMC
\* id and full text ("full"), a PMC id whose fetch was dropped ("unfetched"),
\* or no PMC id, with or without a journal
SummaryKinds == {"full", "unfetched", "abstract", "abstract_no_journal"}

SummaryOf(k, kind) ==
    IF kind \in {"full", "unfetched"} THEN Metadata(k, k, TRUE)
    ELSE Metadata(k, 0, kind = "abstract")

ChainValue(kinds) ==
    LET full == SelectSeq([k \in 1..Len(kinds) |-> k], LAMBDA k : kinds[k] = "full")
    IN  [all_articles |-> [k \in 1..Len(kinds) |-> SummaryOf(k, kinds[k])],
         full_text |-> [j \in 1..Len(full) |-> Article(full[j])]]

ChainValues == {ChainValue(kinds) : kinds \in UNION {[1..n -> SummaryKinds] : n \in 0..MaxSummaries}}

Labels == {"label", "label_without_indications"}

\* (variant: gather without return_exceptions lets the first exception out)
search_all_sources_raises_any(results) == \E i \in 1..3 : results[i].raised

\* `return_exceptions=True  # Don't fail if one source fails`
search_all_sources_raises(results) == FALSE

\* "Unpack results" and "Build SearchResults object"
search_all_sources(results) ==
    LET fda_label == IF ~results[1].raised THEN results[1].value ELSE NoLabel
        pubmed_result == IF ~results[2].raised THEN results[2].value
                         ELSE [all_articles |-> <<>>, full_text |-> <<>>]
        clinical_trials == IF ~results[3].raised THEN results[3].value ELSE <<>>
    IN  SearchResults(fda_label, pubmed_result.all_articles, pubmed_result.full_text,
                      clinical_trials)

\* the three sub-searches run and are joined; without a drug name the label
\* lookup finds nothing and the other two return empty without a call
SearchAllSources ==
    /\ UNCHANGED <<validatorVars, scoringVars, labelVars>>
    /\ pc = "search"
    /\ \E r1 \in {Exception("error")} \cup {Value(l) : l \in Labels \cup {NoLabel}},
          r2 \in {Exception(ChainValue(<<>>))} \cup {Value(v) : v \in ChainValues},
          r3 \in {Exception(<<>>)} \cup {Value(t) : t \in TrialLists} :
          LET results == <<r1, r2, r3>>
          IN  /\ ~drug_name => /\ r1 = Value(NoLabel)
                               /\ r2 = Value(ChainValue(<<>>))
                               /\ r3 = Value(<<>>)
              /\ gather_results' = results
              /\ IF search_all_sources_raises(results)
                 THEN /\ pc' = "failed"
                      /\ output' = Raised("source error")
                      /\ UNCHANGED search_results
                 ELSE /\ pc' = "validate"
                      /\ search_results' = search_all_sources(results)
                      /\ UNCHANGED output
    /\ UNCHANGED <<claim_count, ranked_articles, excluded_articles, llm_label, llm_article,
                   claims, claim_id, pos, attempted, label_attempts, drug_name, chainVars>>

----------------------------------------------------------------------------
(* SearchValidator.validate_search_results *)

validate_search_results(results) ==
    LET has_fda == results.fda_label # NoLabel
        has_pubmed == Len(results.pubmed_articles) > 0
        has_trials == Len(results.clinical_trials) > 0
        pubmed_total == results.pubmed_total_found
        pubmed_full_text == results.pubmed_full_text_available
    IN  IF ~(has_fda \/ has_pubmed \/ has_trials)
        THEN [is_valid |-> FALSE, warnings |-> <<"No results found from any source">>]
        ELSE [is_valid |-> TRUE,
              warnings |->
                  (IF pubmed_total > 0 /\ pubmed_full_text = 0
                   THEN <<"none have full text in PMC">> ELSE <<>>)
                  \o (IF pubmed_full_text < FewFullText /\ pubmed_total > 0
                      THEN <<"only few articles have full text">> ELSE <<>>)
                  \o (IF has_fda /\ results.fda_label = "label_without_indications"
                      THEN <<"FDA label missing indications section">> ELSE <<>>)]

----------------------------------------------------------------------------
(* ResultsRanker.rank_articles *)

\* what score_relevance answers for one article, in tenths; it may also raise
ScoringRaised == 0 - 1
RelevanceAnswers == {50, 100, ScoringRaised}

\* max_score=10, in tenths
MaxRelevance == 100

AuthorityScore == 85
RecencyScore == 30
DefaultScore == 100

\* _score_article, and the default of rank_articles when the task raised
score_of(relevance) ==
    IF relevance = ScoringRaised THEN DefaultScore
    ELSE AuthorityScore + relevance + RecencyScore

\* list.sort(key=score, reverse=True): stable, highest first
RECURSIVE InsertByScore(_, _)
InsertByScore(x, sorted) ==
    IF sorted = <<>> THEN <<x>>
    ELSE IF Head(sorted).score >= x.score
         THEN <<Head(sorted)>> \o InsertByScore(x, Tail(sorted))
         ELSE <<x>> \o sorted

RECURSIVE SortByScore(_)
SortByScore(s) ==
    IF s = <<>> THEN <<>>
    ELSE InsertByScore(s[Len(s)], SortByScore(SubSeq(s, 1, Len(s) - 1)))

\* (variant: the scored list is returned as built, without the sort)
rank_articles_unsorted(articles, relevance) ==
    [k \in 1..Len(articles) |->
        [article |-> articles[k], score |-> score_of(relevance[k])]]

rank_articles(articles, relevance) ==
    SortByScore([k \in 1..Len(articles) |->
                    [article |-> articles[k], score |-> score_of(relevance[k])]])

----------------------------------------------------------------------------
(* DrugClaimsRetrieval.process_query, from the parsed intent on *)

\* "Validate search results": an invalid result set raises ValueError
ValidateSearchResults ==
    /\ UNCHANGED <<validatorVars, scoringVars, labelVars>>
    /\ pc = "validate"
    /\ IF validate_search_results(search_results).is_valid
       THEN pc' = "rank" /\ UNCHANGED output
       ELSE pc' = "failed" /\ output' = Raised("No usable results found")
    /\ UNCHANGED <<claim_count, search_results, ranked_articles, excluded_articles,
                   llm_label, llm_article, claims, claim_id, pos, attempted,
                   label_attempts, searchVars, chainVars>>

\* "PHASE 5: Filter and Rank", then generate_claims is entered
RankArticles ==
    /\ UNCHANGED <<validatorVars, scoringVars, labelVars>>
    /\ pc = "rank"
    /\ excluded_articles' = get_excluded_articles(search_results.pubmed_articles)
    /\ \E relevance \in [1..Len(search_results.pubmed_full_text) -> RelevanceAnswers] :
           ranked_articles' = rank_articles(search_results.pubmed_full_text, relevance)
    /\ pc' = "gen_label"
    /\ UNCHANGED <<claim_count, search_results, llm_label, llm_article, claims, claim_id,
                   pos, attempted, label_attempts, output, searchVars, chainVars>>

PipelineArticleAnswers ==
    { NoData,
      ClaimData(GoodText, GoodSubstantiation, <<>>),
      ClaimData(WrongNumberText, GoodSubstantiation, <<>>) }

PipelineLabelAnswers == {NoData, ClaimData(GoodText, GoodSubstantiation, <<>>)}

InitPipeline ==
    /\ ValidatorIdle
    /\ ScoringIdle
    /\ LabelIdle
    /\ pc = "search"
    /\ claim_count \in 1..MaxQuota
    /\ drug_name \in BOOLEAN
    /\ llm_article \in [1..MaxSummaries -> PipelineArticleAnswers]
    /\ llm_label \in PipelineLabelAnswers
    /\ search_results = SearchResults(NoLabel, <<>>, <<>>, <<>>)
    /\ ranked_articles = <<>>
    /\ excluded_articles = <<>>
    /\ claims = <<>>
    /\ claim_id = 1
    /\ pos = 0
    /\ attempted = {}
    /\ label_attempts = 0
    /\ output = NoOutput
    /\ gather_results = <<>>
    /\ ChainIdle

NextPipeline ==
    \/ SearchAllSources
    \/ ValidateSearchResults
    \/ RankArticles
    \/ GenerateFdaClaim
    \/ GenerateArticleClaim
    \/ BuildOutput

SpecPipeline == InitPipeline /\ [][NextPipeline]_vars

Finished == pc \in {"done", "failed"}

NoResults(results) ==
    /\ results.fda_label = NoLabel
    /\ results.pubmed_articles = <<>>
    /\ results.clinical_trials = <<>>

\* C8 (as stated): the request fails with an error exactly when the aggregated
\* result set has no label, no article summaries and no trial records.
C8_FailsExactlyWhenAllEmpty ==
    Finished => (output.status = "raised" <=> NoResults(search_results))

\* C9: whatever subset of the three sub-searches raised, search_all_sources
\* does not raise; a failed source is recorded as absent (no label, no
\* articles, no trials with zero counts) and the result of every other
\* sub-search is in the result set unchanged.
C9_SourcesIsolated ==
    gather_results # <<>> =>
        /\ pc # "search"
        /\ output.error # "source error"
        /\ search_results.fda_label =
               (IF gather_results[1].raised THEN NoLabel ELSE gather_results[1].value)
        /\ IF gather_results[2].raised
           THEN /\ search_results.pubmed_articles = <<>>
                /\ search_results.pubmed_full_text = <<>>
                /\ search_results.pubmed_total_found = 0
           ELSE /\ search_results.pubmed_articles = gather_results[2].value.all_articles
                /\ search_results.pubmed_full_text = gather_results[2].value.full_text
        /\ search_results.clinical_trials =
               (IF gather_results[3].raised THEN <<>> ELSE gather_results[3].value)
        /\ gather_results[3].raised => search_results.clinical_trials_found = 0

C9_Witness ==
    /\ pc = "validate"
    /\ gather_results[1].raised
    /\ ~gather_results[2].raised
    /\ gather_results[3].raised
    /\ search_results.fda_label = NoLabel
    /\ search_results.clinical_trials = <<>>
    /\ Len(search_results.pubmed_full_text) >= 1
    /\ Len(search_results.pubmed_articles) > Len(search_results.pubmed_full_text)

----------------------------------------------------------------------------
(* search_and_get_full_text called on its own *)

\* (variant: the chain starts with the metadata call)
first_stage_metadata == "stage2"

\* "Step 1: Search for PMIDs" is the first statement of the chain
first_stage == "stage1"

InitChain ==
    /\ ValidatorIdle
    /\ ScoringIdle
    /\ LabelIdle
    /\ chain_pc = first_stage
    /\ pmids = <<>>
    /\ all_articles = <<>>
    /\ fetches = <<>>
    /\ chain_result = NoChainResult
    /\ calls = <<>>
    /\ pc = "chain"
    /\ claim_count = 1
    /\ search_results = SearchResults(NoLabel, <<>>, <<>>, <<>>)
    /\ ranked_articles = <<>>
    /\ excluded_articles = <<>>
    /\ llm_label = NoData
    /\ llm_article = <<>>
    /\ claims = <<>>
    /\ claim_id = 1
    /\ pos = 0
    /\ attempted = {}
    /\ label_attempts = 0
    /\ output = NoOutput
    /\ drug_name = TRUE
    /\ gather_results = <<>>

NextChain ==
    \/ SearchArticles
    \/ GetArticleMetadata
    \/ \E k \in 1..MaxPmids : k <= Len(fetches) /\ GetFullTextArticle(k)
    \/ JoinFullText

SpecChain == InitChain /\ [][NextChain]_vars

ChainDone == chain_pc = "done" /\ chain_result.status # "none"

StageFailed(op) == \E i \in 1..Len(calls) : calls[i].op = op /\ ~calls[i].ok

\* C10 (as stated): a stage-1 identifier search or a stage-2 metadata fetch
\* that failed makes search_and_get_full_text end with an error, never with an
\* ordinary result.
C10_StageFailurePropagates ==
    (ChainDone /\ (StageFailed("esearch") \/ StageFailed("efetch_pubmed")))
        => chain_result.status = "raised"

\* C11 (as stated): a call of the chain whose request failed has been
\* attempted again, up to the declared three attempts, before it is treated
\* as failed; no call is attempted more than three times.
C11_FailedCallRetried ==
    \A i \in 1..Len(calls) :
        /\ calls[i].attempts <= StopAfterAttempt
        /\ ~calls[i].ok => calls[i].attempts = StopAfterAttempt

\* the k-th summary with a PMC id, as stage 3 numbers its fetches
WithPmc == articles_with_pmc(all_articles)

\* C12: once stage 3 has run, whatever fetches were dropped, the chain returns
\* (it does not raise) all summaries of stage 2 and the full-text articles of
\* exactly the fetches that succeeded, in their order.
C12_FetchFailuresDropped ==
    (ChainDone /\ fetches # <<>>) =>
        /\ chain_result.status = "returned"
        /\ chain_result.all_articles = all_articles
        /\ Len(chain_result.full_text)
               = Cardinality({k \in 1..Len(fetches) : fetches[k] = "article"})
        /\ \A k \in 1..Len(fetches) :
               fetches[k] = "article"
                   <=> \E j \in 1..Len(chain_result.full_text) :
                           chain_result.full_text[j].pmcid = WithPmc[k].pmcid

C12_Witness ==
    /\ ChainDone
    /\ \E k \in 1..Len(fetches) : fetches[k] = "none"
    /\ \E k \in 1..Len(fetches) : fetches[k] = "article"
    /\ Len(chain_result.full_text) = 1
    /\ Len(chain_result.all_articles) = 3

\* C13: in every result set search_all_sources has returned, whichever
\* sub-searches raised, the three PubMed counters are the lengths of the
\* returned lists and full_text_available + abstract_only = total_found.
C13_CountersAddUp ==
    gather_results # <<>> =>
        /\ search_results.pubmed_total_found = Len(search_results.pubmed_articles)
        /\ search_results.pubmed_full_text_available = Len(search_results.pubmed_full_text)
        /\ search_results.pubmed_full_text_available + search_results.pubmed_abstract_only
               = search_results.pubmed_total_found

C13_Witness ==
    /\ pc = "validate"
    /\ gather_results[1].raised
    /\ search_results.pubmed_full_text_available = 1
    /\ search_results.pubmed_abstract_only = 1
    /\ \A k \in 1..Len(search_results.pubmed_articles) :
           search_results.pubmed_articles[k].pmcid # 0

\* C14: in every result of the chain, each full-text article has the PMC id
\* of a summary of the metadata list, that id is not null, no two full-text
\* articles share a summary, and the full-text list is not longer than the
\* metadata list.
C14_FullTextWithinMetadata ==
    ChainDone =>
        LET summaries == chain_result.all_articles
            full == chain_result.full_text
        IN  /\ Len(full) <= Len(summaries)
            /\ \A j \in 1..Len(full) :
                   /\ full[j].pmcid # 0
                   /\ \E k \in 1..Len(summaries) : summaries[k].pmcid = full[j].pmcid
            /\ \A i, j \in 1..Len(full) : full[i].pmcid = full[j].pmcid => i = j

C14_Witness ==
    /\ ChainDone
    /\ Len(chain_result.full_text) = 2
    /\ Len(chain_result.all_articles) = 3
    /\ \E k \in 1..3 : chain_result.all_articles[k].pmcid = 0

\* the summaries of the result set that have no article in the full-text list
LackingFullText(results) ==
    SelectSeq(results.pubmed_articles,
              LAMBDA a : ~\E j \in 1..Len(results.pubmed_full_text) :
                              a.pmcid # 0 /\ results.pubmed_full_text[j].pmcid = a.pmcid)

\* C15 (as stated): the excluded-articles list of a returned output names, in
\* order, every summary that has no full-text article (no PMC id, or a dropped
\* fetch), cut only at ExcludedCap entries.
C15_AllLackingReported ==
    Returned =>
        LET lacking == Take(LackingFullText(search_results), ExcludedCap)
            reported == output.articles_without_full_text
        IN  /\ Len(reported) = Len(lacking)
            /\ \A k \in 1..Len(lacking) : reported[k].pmid = lacking[k].pmid

----------------------------------------------------------------------------
(* process_query from PHASE 5 on: ranking, then generation *)

InitRank ==
    /\ ValidatorIdle
    /\ ScoringIdle
    /\ LabelIdle
    /\ pc = "rank"
    /\ claim_count \in 1..MaxQuota
    /\ \E n \in 0..MaxArticles, fda_label \in {NoLabel, "label"},
          m \in {0, 1, ExcludedCap + 1} :
          /\ search_results = SearchResults(fda_label, Summaries(n, m, TRUE),
                                            [k \in 1..n |-> Article(k)], <<>>)
          /\ llm_article \in [1..n -> {ClaimData(GoodText, GoodSubstantiation, <<>>),
                                        ClaimData(ShortText, GoodSubstantiation, <<>>)}]
          /\ llm_label = IF fda_label = NoLabel THEN NoData
                         ELSE ClaimData(GoodText, GoodSubstantiation, <<>>)
    /\ ranked_articles = <<>>
    /\ excluded_articles = <<>>
    /\ claims = <<>>
    /\ claim_id = 1
    /\ pos = 0
    /\ attempted = {}
    /\ label_attempts = 0
    /\ output = NoOutput
    /\ drug_name = TRUE
    /\ gather_results = <<>>
    /\ ChainIdle

NextRank == RankArticles \/ GenerateFdaClaim \/ GenerateArticleClaim \/ BuildOutput

SpecRank == InitRank /\ [][NextRank]_vars

Ranked == pc \notin {"search", "validate", "rank", "failed", "chain"}

\* position of the article with this PMC id in the list handed to the ranker
InputIndex(pmcid) ==
    CHOOSE k \in 1..Len(search_results.pubmed_full_text) :
        search_results.pubmed_full_text[k].pmcid = pmcid

\* C16: the ranked list has the length of the input, holds each input article
\* exactly once, has non-increasing scores, and two entries with equal scores
\* are in their input order.
C16_StableDescendingPermutation ==
    Ranked =>
        LET input == search_results.pubmed_full_text
        IN  /\ Len(ranked_articles) = Len(input)
            /\ \A k \in 1..Len(input) :
                   Cardinality({i \in 1..Len(ranked_articles) :
                                   ranked_articles[i].article = input[k]}) = 1
            /\ \A i, j \in 1..Len(ranked_articles) :
                   i < j => /\ ranked_articles[i].score >= ranked_articles[j].score
                            /\ ranked_articles[i].score = ranked_articles[j].score
                                   => InputIndex(ranked_articles[i].article.pmcid)
                                          < InputIndex(ranked_articles[j].article.pmcid)

C16_Witness ==
    /\ Ranked
    /\ Len(ranked_articles) = 3
    /\ ranked_articles[1].article.pmcid = 2
    /\ ranked_articles[2].article.pmcid = 1
    /\ ranked_articles[3].article.pmcid = 3
    /\ ranked_articles[1].score > ranked_articles[2].score
    /\ ranked_articles[2].score = ranked_articles[3].score

ScoreOfClaim(c) ==
    ranked_articles[CHOOSE k \in 1..Len(ranked_articles) :
                        ranked_articles[k].article.pmcid = c.citations[1].pmcid].score

HighestTier == "Highest - FDA Approved"
TopArticleTier == "High - Full text substantiation with validated data"
MiddleArticleTier == "High - Full text substantiation"
FlaggedTier == "Medium - Full text available but numerical validation flagged issues"

\* C18 (as stated): a label-derived claim has the highest tier; an
\* article-derived claim has the top article tier exactly when its numeric
\* check passed and its score is >= 20, the middle tier exactly when the check
\* passed and the score is < 20, and never any other tier.
C18_Original ==
    Returned => \A i \in 1..Len(output.claims) :
        LET c == output.claims[i]
        IN  /\ IsLabelClaim(c) => c.confidence = HighestTier
            /\ IsArticleClaim(c) =>
                   /\ c.confidence \in {TopArticleTier, MiddleArticleTier}
                   /\ c.confidence = TopArticleTier
                          <=> (ClaimNumbersValid(c) /\ ScoreOfClaim(c) >= HighScoreThreshold)
                   /\ c.confidence = MiddleArticleTier
                          <=> (ClaimNumbersValid(c) /\ ScoreOfClaim(c) < HighScoreThreshold)

\* C18 (amended): as above for the highest, top and middle tiers, and an
\* article-derived claim has a third tier, the flagged one, exactly when its
\* numeric check failed; no tier outside these four is attached.
C18_TierBySourceAndValidation ==
    Returned => \A i \in 1..Len(output.claims) :
        LET c == output.claims[i]
        IN  /\ IsLabelClaim(c) => c.confidence = HighestTier
            /\ IsArticleClaim(c) =>
                   /\ c.confidence \in {TopArticleTier, MiddleArticleTier, FlaggedTier}
                   /\ c.confidence = TopArticleTier
                          <=> (ClaimNumbersValid(c) /\ ScoreOfClaim(c) >= HighScoreThreshold)
                   /\ c.confidence = MiddleArticleTier
                          <=> (ClaimNumbersValid(c) /\ ScoreOfClaim(c) < HighScoreThreshold)
                   /\ c.confidence = FlaggedTier <=> ~ClaimNumbersValid(c)

C18_Witness ==
    /\ Returned
    /\ \E i \in 1..Len(output.claims) :
           /\ IsArticleClaim(output.claims[i])
           /\ output.claims[i].confidence = TopArticleTier
           /\ ScoreOfClaim(output.claims[i]) = HighScoreThreshold
    /\ \E i \in 1..Len(output.claims) :
           /\ IsArticleClaim(output.claims[i])
           /\ output.claims[i].confidence = FlaggedTier

----------------------------------------------------------------------------
(* The two ClaimValidator methods called directly *)

Pct89 == <<"8", "9", "%">>
Pct92 == <<"9", "2", "%">>
Pct9 == <<"9", "%">>
Num1234 == <<"1", ",", "2", "3", "4">>
Num234 == <<"2", "3", "4">>
Run2246 == <<"2", "2", "4", "6">>

ClaimWordLists == {<<>>, <<Pct89>>, <<Pct92>>, <<Pct9>>, <<Num1234>>, <<Num234>>,
                   <<Run2246>>, <<Pct89, Pct92>>, <<Pct92, Pct92>>}
SubstantiationWordLists == {<<>>, <<Pct92>>}
SourceWordLists == {<<>>, <<Pct89>>, <<Num1234>>, <<Pct89, Num234>>}
NumericalDataValues == {<<>>, << <<>> >>, <<Pct89>>, << <<"9", "2">>, <<>>, Pct92 >>}

NumericalAccuracyArgs ==
    { [op |-> "numerical_accuracy",
       claim_text |-> Str(25, cw),
       substantiation |-> Str(150, sw),
       source_text |-> Str(300, rw),
       numerical_data |-> nd,
       full_text_available |-> FALSE,
       source_type |-> ""] :
          cw \in ClaimWordLists, sw \in SubstantiationWordLists,
          rw \in SourceWordLists, nd \in NumericalDataValues }

ClaimTextFields == {MissingField, NullField} \cup {Str(n, <<>>) : n \in {0, 10, 19, 20, 21, 25}}
SubstantiationFields ==
    {MissingField, NullField} \cup {Str(n, <<>>) : n \in {0, 50, 99, 100, 101, 150}}

CompletenessArgs ==
    { [op |-> "claim_completeness",
       claim_text |-> ct,
       substantiation |-> sub,
       source_text |-> MissingField,
       numerical_data |-> <<>>,
       full_text_available |-> FALSE,
       source_type |-> ""] : ct \in ClaimTextFields, sub \in SubstantiationFields }

\* values of SourceType
SourceTypes == {"FDA_APPROVED_LABEL", "PEER_REVIEWED_FULL_TEXT", "PEER_REVIEWED_ABSTRACT",
                "CLINICAL_TRIAL_REGISTRY", "FDA_CLINICAL_STUDIES"}

FullTextRequirementArgs ==
    { [NoArgs EXCEPT !.op = "full_text_requirement",
                     !.full_text_available = flag,
                     !.source_type = st] : flag \in BOOLEAN, st \in SourceTypes }

AbstractOnlyWarning == "Claim based on abstract only - full text not available"

\* (variant: the availability flag is looked at before the source type)
validate_full_text_requirement_flag_first(full_text_available, source_type) ==
    IF ~full_text_available
    THEN [is_valid |-> FALSE, warning |-> AbstractOnlyWarning]
    ELSE IF source_type = "PEER_REVIEWED_ABSTRACT"
    THEN [is_valid |-> FALSE, warning |-> AbstractOnlyWarning]
    ELSE [is_valid |-> TRUE, warning |-> "None"]

\* validate_full_text_requirement(full_text_available, source_type)
\* -> (is_valid, warning)
validate_full_text_requirement(full_text_available, source_type) ==
    IF source_type = "FDA_APPROVED_LABEL"
    THEN [is_valid |-> TRUE, warning |-> "None"]
    ELSE IF source_type = "PEER_REVIEWED_FULL_TEXT" /\ full_text_available
    THEN [is_valid |-> TRUE, warning |-> "None"]
    ELSE IF source_type = "PEER_REVIEWED_ABSTRACT" \/ ~full_text_available
    THEN [is_valid |-> FALSE, warning |-> AbstractOnlyWarning]
    ELSE [is_valid |-> TRUE, warning |-> "None"]

ValidateFullTextRequirement ==
    /\ validator_args.op = "full_text_requirement"
    /\ ~validator_result.done
    /\ LET r == validate_full_text_requirement(validator_args.full_text_available,
                                                validator_args.source_type)
       IN  validator_result' = [done |-> TRUE, raised |-> FALSE, is_valid |-> r.is_valid,
                                issues |-> <<>>, warning |-> r.warning]
    /\ UNCHANGED <<validator_args, genVars, searchVars, chainVars, scoringVars, labelVars>>

ValidateNumericalAccuracy ==
    /\ validator_args.op = "numerical_accuracy"
    /\ ~validator_result.done
    /\ LET r == validate_numerical_accuracy(
                    validator_args.claim_text, validator_args.substantiation,
                    validator_args.source_text, validator_args.numerical_data)
       IN  validator_result' = [done |-> TRUE, raised |-> FALSE,
                                is_valid |-> r.is_valid, issues |-> r.issues,
                                warning |-> "None"]
    /\ UNCHANGED <<validator_args, genVars, searchVars, chainVars, scoringVars, labelVars>>

ValidateClaimCompleteness ==
    /\ validator_args.op = "claim_completeness"
    /\ ~validator_result.done
    /\ LET r == validate_claim_completeness(validator_args)
       IN  validator_result' = [done |-> TRUE, raised |-> r.raised,
                                is_valid |-> r.is_valid, issues |-> r.issues,
                                warning |-> "None"]
    /\ UNCHANGED <<validator_args, genVars, searchVars, chainVars, scoringVars, labelVars>>

InitValidators ==
    /\ validator_args \in NumericalAccuracyArgs \cup CompletenessArgs
                             \cup FullTextRequirementArgs
    /\ validator_result = NoResult
    /\ ScoringIdle
    /\ LabelIdle
    /\ pc = "validator"
    /\ claim_count = 1
    /\ search_results = SearchResults(NoLabel, <<>>, <<>>, <<>>)
    /\ ranked_articles = <<>>
    /\ excluded_articles = <<>>
    /\ llm_label = NoData
    /\ llm_article = <<>>
    /\ claims = <<>>
    /\ claim_id = 1
    /\ pos = 0
    /\ attempted = {}
    /\ label_attempts = 0
    /\ output = NoOutput
    /\ drug_name = TRUE
    /\ gather_results = <<>>
    /\ ChainIdle

NextValidators ==
    \/ ValidateNumericalAccuracy
    \/ ValidateClaimCompleteness
    \/ ValidateFullTextRequirement

SpecValidators == InitValidators /\ [][NextValidators]_vars

NumericalAccuracyReturned ==
    validator_args.op = "numerical_accuracy" /\ validator_result.done

\* a token matches a source token: after removing spaces and commas and
\* lowering, they are equal or one is a substring of the other
TokenMatches(a, b) ==
    LET x == Clean(a)
        y == Clean(b)
    IN  \/ x = y
        \/ \E i \in 0..(Len(y) - Len(x)) : SubSeq(y, i + 1, i + Len(x)) = x
        \/ \E i \in 0..(Len(x) - Len(y)) : SubSeq(x, i + 1, i + Len(y)) = y

\* the items to be matched: the number tokens of claim text + " " +
\* substantiation, then the non-null values of numerical_data
CheckedItems ==
    ExtractNumbers(validator_args.claim_text)
    \o ExtractNumbers(validator_args.substantiation)
    \o SelectSeq(validator_args.numerical_data, LAMBDA v : v # <<>>)

Unmatched ==
    LET source == ExtractNumbers(validator_args.source_text)
    IN  SelectSeq(CheckedItems,
                  LAMBDA item : ~\E k \in 1..Len(source) : TokenMatches(item, source[k]))

\* C19: validate_numerical_accuracy answers valid exactly when its issue list
\* is empty, which is exactly when every number token of claim text and
\* substantiation and every non-null numerical_data value matches a number
\* token of the source text; otherwise the list has one issue per unmatched
\* item, in order, naming it.
C19_ValidIffAllMatched ==
    NumericalAccuracyReturned =>
        /\ validator_result.is_valid <=> validator_result.issues = <<>>
        /\ validator_result.is_valid <=> Unmatched = <<>>
        /\ Len(validator_result.issues) = Len(Unmatched)
        /\ \A k \in 1..Len(Unmatched) : validator_result.issues[k].token = Unmatched[k]

C19_Witness ==
    /\ NumericalAccuracyReturned
    /\ validator_args.claim_text.words = <<Pct89, Pct92>>
    /\ validator_args.source_text.words = <<Pct89>>
    /\ validator_args.numerical_data = <<Pct89>>
    /\ ~validator_result.is_valid
    /\ Len(validator_result.issues) = 2

CompletenessReturned ==
    /\ validator_args.op = "claim_completeness"
    /\ validator_result.done
    /\ ~validator_result.raised

NonEmptyString(t) == t.kind = "str" /\ TextLen(t) > 0

\* C20 (as stated): validate_claim_completeness answers valid exactly when its
\* issue list is empty, and the list is empty exactly when claim text and
\* substantiation are non-empty and longer than 20 and 100 characters.
C20_Original ==
    CompletenessReturned =>
        /\ validator_result.is_valid <=> validator_result.issues = <<>>
        /\ validator_result.issues = <<>>
               <=> /\ NonEmptyString(validator_args.claim_text)
                   /\ NonEmptyString(validator_args.substantiation)
                   /\ TextLen(validator_args.claim_text) > MinClaimTextLen
                   /\ TextLen(validator_args.substantiation) > MinSubstantiationLen

\* C20 (amended): the call raises exactly when one of the two fields is null;
\* otherwise it answers valid exactly when its issue list is empty, and the
\* list is empty exactly when claim text and substantiation are non-empty and
\* at least 20 and 100 characters long; a claim text of 10 characters is
\* reported as too short.
C20_ValidIffLongEnough ==
    /\ (validator_args.op = "claim_completeness" /\ validator_result.done) =>
           (validator_result.raised
                <=> (validator_args.claim_text.kind = "null"
                     \/ validator_args.substantiation.kind = "null"))
    /\ CompletenessReturned =>
           /\ validator_result.is_valid <=> validator_result.issues = <<>>
           /\ validator_result.issues = <<>>
                  <=> /\ NonEmptyString(validator_args.claim_text)
                      /\ NonEmptyString(validator_args.substantiation)
                      /\ TextLen(validator_args.claim_text) >= MinClaimTextLen
                      /\ TextLen(validator_args.substantiation) >= MinSubstantiationLen
           /\ (validator_args.claim_text.kind = "str"
                   /\ TextLen(validator_args.claim_text) = 10)
                  => \E k \in 1..Len(validator_result.issues) :
                         validator_result.issues[k] = "claim text too short"

C20_Witness ==
    /\ CompletenessReturned
    /\ validator_args.claim_text.kind = "str"
    /\ validator_args.substantiation.kind = "str"
    /\ TextLen(validator_args.claim_text) = MinClaimTextLen
    /\ TextLen(validator_args.substantiation) = MinSubstantiationLen
    /\ validator_result.is_valid

FullTextRequirementReturned ==
    validator_args.op = "full_text_requirement" /\ validator_result.done

\* C21: validate_full_text_requirement accepts, without a warning, every
\* FDA-label source whatever the flag and every peer-reviewed full-text source
\* whose full text was used; it rejects, with a warning, every abstract source
\* and every source other than a label whose full text was not available.
C21_FullTextRequirement ==
    FullTextRequirementReturned =>
        LET flag == validator_args.full_text_available
            st == validator_args.source_type
            accepted == validator_result.is_valid /\ validator_result.warning = "None"
            rejected == ~validator_result.is_valid /\ validator_result.warning # "None"
        IN  /\ st = "FDA_APPROVED_LABEL" => accepted
            /\ (st = "PEER_REVIEWED_FULL_TEXT" /\ flag) => accepted
            /\ st = "PEER_REVIEWED_ABSTRACT" => rejected
            /\ (st # "FDA_APPROVED_LABEL" /\ ~flag) => rejected

C21_Witness ==
    /\ FullTextRequirementReturned
    /\ validator_args.source_type = "FDA_APPROVED_LABEL"
    /\ ~validator_args.full_text_available
    /\ validator_result.is_valid
    /\ validator_result.warning = "None"

CallsOf(op) == {i \in 1..Len(calls) : calls[i].op = op}

\* C22: in the order the calls are made, the metadata call comes after the
\* completed identifier search and every full-text fetch after the completed
\* metadata call; each of the two first stages is called at most once; the
\* fetches are those of the stage-2 summaries that carry a PMC id, one each.
C22_StrictPipeline ==
    /\ Cardinality(CallsOf("esearch")) <= 1
    /\ Cardinality(CallsOf("efetch_pubmed")) <= 1
    /\ \A i \in CallsOf("efetch_pubmed") : \E j \in CallsOf("esearch") : j < i
    /\ \A i \in CallsOf("efetch_pmc") : \E j \in CallsOf("efetch_pubmed") : j < i
    /\ fetches # <<>> => Len(fetches) = Len(articles_with_pmc(all_articles))
    /\ Cardinality(CallsOf("efetch_pmc"))
           = Cardinality({k \in 1..Len(fetches) : fetches[k] # "pending"})
    /\ ChainDone => Cardinality(CallsOf("efetch_pmc"))
                        = Len(articles_with_pmc(chain_result.all_articles))

C22_Witness ==
    /\ ChainDone
    /\ Len(calls) = 4
    /\ calls[1].op = "esearch"
    /\ calls[2].op = "efetch_pubmed"
    /\ calls[3].op = "efetch_pmc"
    /\ calls[4].op = "efetch_pmc"
    /\ Len(chain_result.all_articles) = 3

----------------------------------------------------------------------------
(* ResultsRanker.rank_articles, task by task *)

\* a scoring task that has not completed yet
TaskPending == 0 - 2

\* (variant: the results are taken in the order the tasks completed)
gathered_by_completion(results, order) == [i \in 1..Len(order) |-> results[order[i]]]

\* `scores = await asyncio.gather(*scoring_tasks, ...)`: the result list is
\* in the order of the tasks, whatever order they completed in
gathered(results, order) == results

\* one scoring task completes: _score_article returns, or raises
ScoreArticle(k) ==
    /\ pc = "scoring"
    /\ task_results[k] = TaskPending
    /\ task_results' = [task_results EXCEPT ![k] = judgments[k]]
    /\ completion_order' = Append(completion_order, k)
    /\ UNCHANGED <<judgments, genVars, searchVars, chainVars, validatorVars, labelVars>>

\* the gather returns once every task has completed; then the pairs are
\* built with zip(articles, scores) and sorted
JoinScores ==
    /\ pc = "scoring"
    /\ \A k \in 1..Len(task_results) : task_results[k] # TaskPending
    /\ ranked_articles' = rank_articles(search_results.pubmed_full_text,
                                        gathered(task_results, completion_order))
    /\ pc' = "scored"
    /\ UNCHANGED <<claim_count, search_results, excluded_articles, llm_label, llm_article,
                   claims, claim_id, pos, attempted, label_attempts, output>>
    /\ UNCHANGED <<scoringVars, searchVars, chainVars, validatorVars, labelVars>>

InitScoring ==
    /\ pc = "scoring"
    /\ \E n \in 0..MaxArticles :
          /\ search_results = SearchResults(NoLabel, Summaries(n, 0, TRUE),
                                            [k \in 1..n |-> Article(k)], <<>>)
          /\ judgments \in [1..n -> RelevanceAnswers]
          /\ task_results = [k \in 1..n |-> TaskPending]
    /\ completion_order = <<>>
    /\ claim_count = 1
    /\ ranked_articles = <<>>
    /\ excluded_articles = <<>>
    /\ llm_label = NoData
    /\ llm_article = <<>>
    /\ claims = <<>>
    /\ claim_id = 1
    /\ pos = 0
    /\ attempted = {}
    /\ label_attempts = 0
    /\ output = NoOutput
    /\ drug_name = TRUE
    /\ gather_results = <<>>
    /\ ChainIdle
    /\ ValidatorIdle
    /\ LabelIdle

NextScoring ==
    \/ \E k \in 1..MaxArticles : k <= Len(task_results) /\ ScoreArticle(k)
    \/ JoinScores

SpecScoring == InitScoring /\ [][NextScoring]_vars

\* C23: no ordering exists before every scoring task has completed, and once
\* the ranked list is built each of its pairs carries the score computed, or
\* defaulted, for that pair's own article, whatever the completion order was.
C23_ScoresJoinedAndReassociated ==
    /\ pc = "scoring" => ranked_articles = <<>>
    /\ pc = "scored" =>
           /\ Len(completion_order) = Len(search_results.pubmed_full_text)
           /\ Len(ranked_articles) = Len(search_results.pubmed_full_text)
           /\ \A i \in 1..Len(ranked_articles) :
                  ranked_articles[i].score
                      = score_of(judgments[InputIndex(ranked_articles[i].article.pmcid)])

C23_Witness ==
    /\ pc = "scored"
    /\ completion_order = <<3, 1, 2>>
    /\ judgments = <<50, 100, ScoringRaised>>
    /\ ranked_articles[1].article.pmcid = 2
    /\ ranked_articles[3].article.pmcid = 3

----------------------------------------------------------------------------
(* OpenFDAClient.search: brand name first, generic name as fallback *)

\* a name as the intent gives it: None, an empty string, or a name
Names == {"None", "", "name"}

\* `if brand_name:` / `if generic_name:`
Truthy(name) == name \notin {"None", ""}

\* one request: a label, no match (404 or empty results), or an error that
\* the function re-raises to the retry wrapper
AttemptOutcomes == Labels \cup {"None", "error"}

Lookup(op, outcome) == [op |-> op, outcome |-> outcome]

AttemptsOf(op) == Cardinality({i \in 1..Len(lookups) : lookups[i].op = op})

\* (variant: the generic lookup follows whatever the brand lookup returned)
brand_result_returned_never(result) == FALSE

\* `if result: return result` after the brand lookup
brand_result_returned(result) == result \in Labels

\* `if brand_name:` is false: no brand lookup
BrandAbsent ==
    /\ pc = "label_brand"
    /\ ~Truthy(label_names.brand_name)
    /\ IF Truthy(label_names.generic_name)
       THEN pc' = "label_generic" /\ UNCHANGED label_result
       ELSE pc' = "label_done" /\ label_result' = "None"
    /\ UNCHANGED <<label_names, lookups>>
    /\ UNCHANGED <<claim_count, search_results, ranked_articles, excluded_articles,
                   llm_label, llm_article, claims, claim_id, pos, attempted,
                   label_attempts, output>>
    /\ UNCHANGED <<searchVars, chainVars, validatorVars, scoringVars>>

\* one attempt of search_by_brand_name under its retry wrapper
SearchByBrandName ==
    /\ pc = "label_brand"
    /\ Truthy(label_names.brand_name)
    /\ \E outcome \in AttemptOutcomes :
          /\ lookups' = Append(lookups, Lookup("brand", outcome))
          /\ IF outcome = "error"
             THEN IF AttemptsOf("brand") + 1 >= StopAfterAttempt
                  THEN pc' = "label_done" /\ label_result' = "raised"
                  ELSE UNCHANGED <<pc, label_result>>
             ELSE IF brand_result_returned(outcome)
             THEN pc' = "label_done" /\ label_result' = outcome
             ELSE IF Truthy(label_names.generic_name)
             THEN pc' = "label_generic" /\ UNCHANGED label_result
             ELSE pc' = "label_done" /\ label_result' = "None"
    /\ UNCHANGED label_names
    /\ UNCHANGED <<claim_count, search_results, ranked_articles, excluded_articles,
                   llm_label, llm_article, claims, claim_id, pos, attempted,
                   label_attempts, output>>
    /\ UNCHANGED <<searchVars, chainVars, validatorVars, scoringVars>>

\* one attempt of search_by_generic_name under its retry wrapper
SearchByGenericName ==
    /\ pc = "label_generic"
    /\ \E outcome \in AttemptOutcomes :
          /\ lookups' = Append(lookups, Lookup("generic", outcome))
          /\ IF outcome = "error"
             THEN IF AttemptsOf("generic") + 1 >= StopAfterAttempt
                  THEN pc' = "label_done" /\ label_result' = "raised"
                  ELSE UNCHANGED <<pc, label_result>>
             ELSE pc' = "label_done" /\ label_result' = outcome
    /\ UNCHANGED label_names
    /\ UNCHANGED <<claim_count, search_results, ranked_articles, excluded_articles,
                   llm_label, llm_article, claims, claim_id, pos, attempted,
                   label_attempts, output>>
    /\ UNCHANGED <<searchVars, chainVars, validatorVars, scoringVars>>

InitLabel ==
    /\ pc = "label_brand"
    /\ label_names \in [brand_name : Names, generic_name : Names]
    /\ lookups = <<>>
    /\ label_result = "pending"
    /\ claim_count = 1
    /\ search_results = SearchResults(NoLabel, <<>>, <<>>, <<>>)
    /\ ranked_articles = <<>>
    /\ excluded_articles = <<>>
    /\ llm_label = NoData
    /\ llm_article = <<>>
    /\ claims = <<>>
    /\ claim_id = 1
    /\ pos = 0
    /\ attempted = {}
    /\ label_attempts = 0
    /\ output = NoOutput
    /\ drug_name = TRUE
    /\ gather_results = <<>>
    /\ ChainIdle
    /\ ValidatorIdle
    /\ ScoringIdle

NextLabel == BrandAbsent \/ SearchByBrandName \/ SearchByGenericName

SpecLabel == InitLabel /\ [][NextLabel]_vars

LookupsOf(op) == {i \in 1..Len(lookups) : lookups[i].op = op}

\* C24: the brand lookup comes first; a generic lookup is made only when the
\* brand name is absent or the brand lookup completed with no match, never
\* after a brand lookup that returned a label or ended with an error; the
\* result is none only if no lookup that was attempted found a label, and a
\* returned label is the one the last lookup found.
C24_BrandThenGeneric ==
    /\ \A i \in LookupsOf("generic") :
           /\ \A j \in LookupsOf("brand") : j < i /\ lookups[j].outcome \notin Labels
           /\ \/ ~Truthy(label_names.brand_name) /\ LookupsOf("brand") = {}
              \/ \E j \in LookupsOf("brand") : lookups[j].outcome = "None"
    /\ ~Truthy(label_names.brand_name) => LookupsOf("brand") = {}
    /\ ~Truthy(label_names.generic_name) => LookupsOf("generic") = {}
    /\ label_result = "None" =>
           /\ \A i \in 1..Len(lookups) : lookups[i].outcome \notin Labels
           /\ lookups # <<>> => lookups[Len(lookups)].outcome = "None"
    /\ label_result \in Labels => lookups[Len(lookups)].outcome = label_result
    /\ AttemptsOf("brand") <= StopAfterAttempt
    /\ AttemptsOf("generic") <= StopAfterAttempt

C24_Witness ==
    /\ pc = "label_done"
    /\ label_result = "label"
    /\ Len(lookups) = 4
    /\ lookups[1] = Lookup("brand", "error")
    /\ lookups[2] = Lookup("brand", "None")
    /\ lookups[3] = Lookup("generic", "error")
    /\ lookups[4] = Lookup("generic", "label")

\* C25: when the identifier search has returned an empty list, the chain has
\* returned (no summaries, no full texts) and the search is the only call it
\* made: no metadata call, no full-text fetch.
C25_EmptySearchShortCircuits ==
    (chain_pc # "stage1" /\ pmids = <<>> /\ CallsOf("esearch") # {}) =>
        /\ ChainDone
        /\ chain_result = ChainReturn(<<>>, <<>>)
        /\ CallsOf("efetch_pubmed") = {}
        /\ CallsOf("efetch_pmc") = {}
        /\ Len(calls) = 1

C25_Witness ==
    /\ ChainDone
    /\ pmids = <<>>
    /\ calls = <<Call("esearch", TRUE)>>
    /\ chain_result = ChainReturn(<<>>, <<>>)

\* the summaries of the result set whose PMC id is that of a full-text article
HavingFullText(results) ==
    {results.pubmed_articles[k].pmid : k \in
        {k \in 1..Len(results.pubmed_articles) :
            \E j \in 1..Len(results.pubmed_full_text) :
                results.pubmed_full_text[j].pmcid = results.pubmed_articles[k].pmcid}}

WithoutPmc(results) ==
    {results.pubmed_articles[k].pmid : k \in
        {k \in 1..Len(results.pubmed_articles) : results.pubmed_articles[k].pmcid = 0}}

\* C26: every entry of the excluded-articles list, as computed and as
\* reported, is a summary without a PMC id and none is an article of the
\* full-text set, whether or not that article's candidate claim was
\* discarded; the reported list has at most ExcludedCap entries.
C26_ExcludedAreWithoutFullText ==
    /\ \A k \in 1..Len(excluded_articles) :
           /\ excluded_articles[k].pmid \in WithoutPmc(search_results)
           /\ excluded_articles[k].pmid \notin HavingFullText(search_results)
    /\ Returned =>
           /\ Len(output.articles_without_full_text) <= ExcludedCap
           /\ \A k \in 1..Len(output.articles_without_full_text) :
                  /\ output.articles_without_full_text[k].pmid \in WithoutPmc(search_results)
                  /\ output.articles_without_full_text[k].pmid
                         \notin HavingFullText(search_results)

C26_Witness ==
    /\ Returned
    /\ Len(excluded_articles) = ExcludedCap + 1
    /\ Len(output.articles_without_full_text) = ExcludedCap
    /\ \E k \in 1..Len(ranked_articles) :
           /\ ranked_articles[k].article.pmcid \in attempted
           /\ ~AnswerComplete(k)

PrimaryCount(c) == Cardinality({j \in 1..Len(c.citations) : c.citations[j].primary})

CitationsWellFormed(c) ==
    /\ Len(c.citations) >= 1
    /\ c.citations[1].primary
    /\ PrimaryCount(c) = 1
    /\ IsLabelClaim(c) => /\ Len(c.citations) = 1
                           /\ c.citations[1].citation_type = "FDA_LABEL"
    /\ IsArticleClaim(c) =>
           /\ c.citations[1].citation_type = "JOURNAL_ARTICLE"
           /\ Len(c.citations) <= 2
           /\ Len(c.citations) = 2 => /\ ~c.citations[2].primary
                                       /\ c.citations[2].citation_type = "TRIAL_REGISTRY"

\* C27: every claim, in the list being built and in the output, has a citation
\* list whose first entry is its only primary citation; a label claim has that
\* one citation only, an article claim its article citation and at most one
\* non-primary trial citation.
C27_OnePrimaryCitationFirst ==
    /\ \A i \in 1..Len(claims) : CitationsWellFormed(claims[i])
    /\ Returned => \A i \in 1..Len(output.claims) : CitationsWellFormed(output.claims[i])

C27_Witness ==
    /\ Returned
    /\ Len(output.claims) = 2
    /\ IsLabelClaim(output.claims[1])
    /\ IsArticleClaim(output.claims[2])
    /\ Len(output.claims[2].citations) = 2

\* the registry id occurs in the full text as written
OccursLiterally(nct_id, article) ==
    \E k \in 1..Len(article.full_text.words) :
        \E i \in 0..(Len(article.full_text.words[k]) - Len(nct_id)) :
            SubSeq(article.full_text.words[k], i + 1, i + Len(nct_id)) = nct_id

\* the registry id occurs in the full text when the case of letters is ignored
OccursIgnoringCase(nct_id, article) ==
    \E k \in 1..Len(article.full_text.words) :
        LET word == [j \in 1..Len(article.full_text.words[k]) |->
                        Lower(article.full_text.words[k][j])]
            id == [j \in 1..Len(nct_id) |-> Lower(nct_id[j])]
        IN  \E i \in 0..(Len(word) - Len(id)) : SubSeq(word, i + 1, i + Len(id)) = id

\* the registry id a claim's trial citation names, <<>> if it has none
AttachedTrial(c) == IF Len(c.citations) >= 2 THEN c.citations[2].nct ELSE <<>>

CitedArticle(c) == Article(c.citations[1].pmcid)

\* C28 (as stated): the trial citation of an article claim names the first
\* retrieved trial whose registry id occurs literally in the article's full
\* text, and there is none if no retrieved trial's id occurs literally.
C28_Original ==
    \A i \in 1..Len(claims) : IsArticleClaim(claims[i]) =>
        LET trials == search_results.clinical_trials
            hits == {k \in 1..Len(trials) :
                        OccursLiterally(trials[k].nct_id, CitedArticle(claims[i]))}
        IN  AttachedTrial(claims[i])
                = (IF hits = {} THEN <<>>
                   ELSE trials[CHOOSE k \in hits : \A h \in hits : k <= h].nct_id)

\* C28 (amended): the same with the occurrence tested ignoring the case of
\* letters: the first retrieved trial, in list order, whose lowered registry
\* id occurs in the lowered full text.
C28_FirstTrialIgnoringCase ==
    \A i \in 1..Len(claims) : IsArticleClaim(claims[i]) =>
        LET trials == search_results.clinical_trials
            hits == {k \in 1..Len(trials) :
                        OccursIgnoringCase(trials[k].nct_id, CitedArticle(claims[i]))}
        IN  AttachedTrial(claims[i])
                = (IF hits = {} THEN <<>>
                   ELSE trials[CHOOSE k \in hits : \A h \in hits : k <= h].nct_id)

C28_Witness ==
    /\ Returned
    /\ Len(search_results.clinical_trials) = 2
    /\ \E i \in 1..Len(output.claims) :
           /\ IsArticleClaim(output.claims[i])
           /\ output.claims[i].citations[1].pmcid = 2
           /\ AttachedTrial(output.claims[i]) = NCT1
    /\ \E i \in 1..Len(output.claims) :
           /\ IsArticleClaim(output.claims[i])
           /\ output.claims[i].citations[1].pmcid = 1
           /\ AttachedTrial(output.claims[i]) = <<>>

\* position in the ranked list of the article an article claim is drawn from
RankOf(c) == CHOOSE k \in 1..Len(ranked_articles) :
                 ranked_articles[k].article.pmcid = c.citations[1].pmcid

ClaimsInOrder(list) ==
    /\ \A i, j \in 1..Len(list) :
           (i < j /\ IsArticleClaim(list[i]) /\ IsArticleClaim(list[j]))
               => RankOf(list[i]) < RankOf(list[j])
    /\ \A i, j \in 1..Len(list) :
           (IsLabelClaim(list[i]) /\ IsArticleClaim(list[j])) => i < j

\* C29: the article claims stand in the order of their articles in the ranked
\* list, no ranked article has two claims, the label extraction is attempted at
\* most once, and every article claim stands after the label claim.
C29_ClaimsFollowRanking ==
    /\ ClaimsInOrder(claims)
    /\ Returned => ClaimsInOrder(output.claims)
    /\ label_attempts <= 1
    /\ \A i \in 1..Len(claims) : IsArticleClaim(claims[i]) =>
           /\ \E k \in 1..Len(ranked_articles) :
                  ranked_articles[k].article.pmcid = claims[i].citations[1].pmcid
           /\ claims[i].citations[1].pmcid \in attempted

C29_Witness ==
    /\ Returned
    /\ label_attempts = 1
    /\ Len(output.claims) = 2
    /\ IsLabelClaim(output.claims[1])
    /\ IsArticleClaim(output.claims[2])
    /\ RankOf(output.claims[2]) = 2
    /\ attempted = {1, 2}

\* C30 (as stated): generate_claims always ends by returning a ClaimsOutput.
C30_AlwaysReturnsOutput == pc = "done" => output.status = "returned"

====
